---- MODULE Spec2Model ----
(***************************************************************************)
(* vmware_guest_move: main() of                                            *)
(* lib/ansible/modules/cloud/vmware/vmware_guest_move.py as a state        *)
(* machine.  A "world" is one inventory together with one module run on    *)
(* it; paths are sequences of one-character strings.                       *)
(***************************************************************************)
EXTENDS Integers, Sequences, FiniteSets, TLC

VARIABLES w, shadow

vars == <<w, shadow>>

\* ------------------------------------------------------------------ bounds
\* longest dest_folder argument tried
MaxLen == 4
\* module invocations in succession on one inventory
MaxRuns == 2
\* most trailing slashes added to the second destination of a pair
MaxExtra == 2

\* ------------------------------------------------------------- inventory
Chars == {"/", "a", "b"}

Paths == UNION {[1..n -> Chars] : n \in 1..MaxLen}

\* the datacenter "a" holds the folders "a/a" and "a/b"
Datacenters == {<<"a">>}

Folders == {<<"a", "/", "a">>, <<"a", "/", "b">>}

\* where a VM that does not exist is
Nowhere == <<>>

VmName == <<"v">>

None == [kind |-> "None", path |-> <<>>]

NoExc == "none"

NoMsg == [kind |-> "", detail |-> <<>>]

\* the choices of the collaborators at one call: the call returns, returns
\* its other result, or raises
Env == {"ok", "alt", "raise"}

\* wait_for_task returns (True, result), returns a false flag, or raises
WaitResults == {"ok", "alt", "raise"}

\* ---------------------------------------------------------- str methods
RECURSIVE rstrip(_)
rstrip(s) ==
    IF s = <<>> THEN s
    ELSE IF s[Len(s)] = "/" THEN rstrip(SubSeq(s, 1, Len(s) - 1))
    ELSE s

lstripKeep(s) == s

RECURSIVE lstrip(_)
lstrip(s) ==
    IF s = <<>> THEN s
    ELSE IF s[1] = "/" THEN lstrip(Tail(s))
    ELSE s

\* ------------------------------------------------------- collaborators
\* searchIndex.FindByInventoryPath: the path need not be absolute
FindByInventoryPath(s, p) ==
    LET q == IF p # <<>> /\ p[1] = "/" THEN Tail(p) ELSE p
    IN  IF q \in Datacenters THEN [kind |-> "Datacenter", path |-> q]
        ELSE IF q \in Folders THEN [kind |-> "Folder", path |-> q]
        ELSE IF s.vmAt # Nowhere /\ q = s.vmAt \o <<"/">> \o VmName
             THEN [kind |-> "VirtualMachine", path |-> q]
        ELSE None

\* PyVmomi.get_vm_path: the folder path of the VM, with a leading slash
get_vm_path(s) == <<"/">> \o s.vmAt

\* pyv.gather_facts(vm): the facts of the VM as the inventory has them now
gather_facts(s) == s.vmAt

\* ------------------------------------------------ the module's results
exit_json(s, changed, instance) ==
    [s EXCEPT !.pc = "done", !.outcome = "success",
              !.out_changed = changed, !.instance = instance]

fail_json(s, msg) ==
    [s EXCEPT !.pc = "done", !.outcome = "failure", !.msg = msg]

\* except Exception as exc: fail_json(msg="Failed to move VM with exception %s")
Caught(s, exc) ==
    fail_json([s EXCEPT !.raised = exc],
              [kind |-> "Failed to move VM with exception", detail |-> <<exc>>])

\* an exception outside the try block leaves main() with a traceback
Uncaught(s, exc) ==
    [s EXCEPT !.pc = "done", !.outcome = "uncaught", !.raised = exc]

\* module.exit_json(changed=..., instance=pyv.gather_facts(vm))
ExitWithFacts(s, changed, e) ==
    IF e = "raise" THEN Caught(s, "gather_facts")
    ELSE exit_json(s, changed, gather_facts(s))

\* --------------------------------------------------- the steps of main
NormalizeKeep(s) == [s EXCEPT !.pc = "get_vm"]

Normalize(s) ==
    [s EXCEPT !.dest_folder = rstrip(s.dest_folder), !.pc = "get_vm"]

GetVm(s, e) ==
    IF e = "raise" THEN Uncaught(s, "get_vm")
    ELSE [s EXCEPT !.vm = (s.vmAt # Nowhere),
                   !.pc = IF s.vmAt # Nowhere THEN "get_vm_path" ELSE "not_found"]

GetVmPath(s, e) ==
    IF e = "raise" THEN Caught(s, "get_vm_path")
    ELSE LET p == lstrip(get_vm_path(s))
         IN  [s EXCEPT !.vm_path = p,
                       !.vm_full = p \o <<"/">> \o VmName,
                       !.pc = "find_folder"]

FindFolderNoCheck(s, e) ==
    IF e = "raise" THEN Caught(s, "FindByInventoryPath")
    ELSE [s EXCEPT !.folder = FindByInventoryPath(s, s.dest_folder),
                   !.pc = "find_vm"]

FindFolder(s, e) ==
    IF e = "raise" THEN Caught(s, "FindByInventoryPath")
    ELSE LET f == FindByInventoryPath(s, s.dest_folder)
         IN  IF f = None
             THEN fail_json([s EXCEPT !.folder = f],
                            [kind |-> "Folder name and/or path does not exist",
                             detail |-> <<>>])
             ELSE [s EXCEPT !.folder = f, !.pc = "find_vm"]

FindVm(s, e) ==
    IF e = "raise" THEN Caught(s, "FindByInventoryPath")
    ELSE [s EXCEPT !.vm_to_move = IF e = "alt" THEN None
                                  ELSE FindByInventoryPath(s, s.vm_full),
                   !.pc = "check_mode"]

CheckModeIgnored(s, e) == [s EXCEPT !.pc = "compare"]

CheckMode(s, e) ==
    IF s.check_mode THEN ExitWithFacts(s, TRUE, e)
    ELSE [s EXCEPT !.pc = "compare"]

CompareAlwaysMove(s, e) == [s EXCEPT !.pc = "move_into"]

CompareNoLstrip(s, e) ==
    IF s.vm_path # s.dest_folder
    THEN [s EXCEPT !.pc = "move_into"]
    ELSE ExitWithFacts(s, FALSE, e)

Compare(s, e) ==
    IF s.vm_path # lstrip(s.dest_folder)
    THEN [s EXCEPT !.pc = "move_into"]
    ELSE ExitWithFacts(s, FALSE, e)

MoveInto(s, e) ==
    IF s.folder.kind # "Folder" THEN Caught(s, "AttributeError")
    ELSE IF s.vm_to_move = None THEN Caught(s, "TypeError")
    ELSE IF e = "raise" THEN Caught(s, "MoveInto")
    ELSE [s EXCEPT !.moves = s.moves + 1, !.target = s.folder.path,
                   !.pc = "wait"]

Wait(s, e) ==
    IF e = "raise" THEN Caught(s, "wait_for_task")
    ELSE IF e = "alt"
         THEN [s EXCEPT !.changed = "False", !.pc = "done"]
         ELSE [s EXCEPT !.changed = "True", !.vmAt = s.target,
                        !.pc = "exit_moved"]

ExitMoved(s, e) == ExitWithFacts(s, TRUE, e)

NotFoundAlwaysFail(s) ==
    fail_json(s, [kind |-> "Unable to find VM", detail |-> s.dest_folder])

NotFound(s) ==
    IF s.check_mode THEN exit_json(s, FALSE, <<>>)
    ELSE fail_json(s, [kind |-> "Unable to find VM", detail |-> s.dest_folder])

Step(s, e) ==
    CASE s.pc = "normalize" -> Normalize(s)
      [] s.pc = "get_vm" -> GetVm(s, e)
      [] s.pc = "get_vm_path" -> GetVmPath(s, e)
      [] s.pc = "find_folder" -> FindFolder(s, e)
      [] s.pc = "find_vm" -> FindVm(s, e)
      [] s.pc = "check_mode" -> CheckMode(s, e)
      [] s.pc = "compare" -> Compare(s, e)
      [] s.pc = "move_into" -> MoveInto(s, e)
      [] s.pc = "wait" -> Wait(s, e)
      [] s.pc = "exit_moved" -> ExitMoved(s, e)
      [] s.pc = "not_found" -> NotFound(s)
      [] OTHER -> s

\* what a run reports and does
Obs(s) ==
    [outcome |-> s.outcome, changed |-> s.out_changed, msg |-> s.msg,
     instance |-> s.instance, moves |-> s.moves, target |-> s.target,
     raised |-> s.raised]

NoObs ==
    [outcome |-> "none", changed |-> FALSE, msg |-> NoMsg, instance |-> <<>>,
     moves |-> 0, target |-> <<>>, raised |-> NoExc]

\* the module at its first line, on an inventory with the VM at `at`
World(dest, check, at, n, prev) ==
    [arg_dest |-> dest, check_mode |-> check, vmAt |-> at, startAt |-> at,
     pc |-> "normalize", dest_folder |-> dest, vm |-> FALSE,
     vm_path |-> <<>>, vm_full |-> <<>>, folder |-> None,
     vm_to_move |-> None, changed |-> "unset", moves |-> 0, target |-> <<>>,
     outcome |-> "none", out_changed |-> FALSE, msg |-> NoMsg,
     instance |-> <<>>, raised |-> NoExc, runNo |-> n, prev |-> prev]

\* ------------------------------------------------------ specification
Init ==
    /\ \E d \in Paths, c \in BOOLEAN, at \in Folders \cup {Nowhere} :
          w = World(d, c, at, 1, NoObs)
    /\ shadow = None

DoNormalize ==
    /\ w.pc = "normalize"
    /\ w' = Normalize(w)
    /\ UNCHANGED shadow

DoGetVm ==
    /\ w.pc = "get_vm"
    /\ \E e \in {"ok", "raise"} : w' = GetVm(w, e)
    /\ UNCHANGED shadow

DoGetVmPath ==
    /\ w.pc = "get_vm_path"
    /\ \E e \in {"ok", "raise"} : w' = GetVmPath(w, e)
    /\ UNCHANGED shadow

DoFindFolder ==
    /\ w.pc = "find_folder"
    /\ \E e \in {"ok", "raise"} : w' = FindFolder(w, e)
    /\ UNCHANGED shadow

DoFindVm ==
    /\ w.pc = "find_vm"
    /\ \E e \in Env : w' = FindVm(w, e)
    /\ UNCHANGED shadow

DoCheckMode ==
    /\ w.pc = "check_mode"
    /\ \E e \in {"ok", "raise"} : w' = CheckMode(w, e)
    /\ UNCHANGED shadow

DoCompare ==
    /\ w.pc = "compare"
    /\ \E e \in {"ok", "raise"} : w' = Compare(w, e)
    /\ UNCHANGED shadow

DoMoveInto ==
    /\ w.pc = "move_into"
    /\ \E e \in {"ok", "raise"} : w' = MoveInto(w, e)
    /\ UNCHANGED shadow

DoWait ==
    /\ w.pc = "wait"
    /\ \E e \in WaitResults : w' = Wait(w, e)
    /\ UNCHANGED shadow

DoExitMoved ==
    /\ w.pc = "exit_moved"
    /\ \E e \in {"ok", "raise"} : w' = ExitMoved(w, e)
    /\ UNCHANGED shadow

DoNotFound ==
    /\ w.pc = "not_found"
    /\ w' = NotFound(w)
    /\ UNCHANGED shadow

\* the module is invoked again with the same arguments on the same inventory
Again ==
    /\ w.pc = "done"
    /\ w.runNo < MaxRuns
    /\ w' = World(w.arg_dest, w.check_mode, w.vmAt, w.runNo + 1, Obs(w))
    /\ UNCHANGED shadow

Next ==
    \/ DoNormalize
    \/ DoGetVm
    \/ DoGetVmPath
    \/ DoFindFolder
    \/ DoFindVm
    \/ DoCheckMode
    \/ DoCompare
    \/ DoMoveInto
    \/ DoWait
    \/ DoExitMoved
    \/ DoNotFound
    \/ Again

Spec == Init /\ [][Next]_vars

\* ---------------------------------------- two runs that differ in dest
Slashes(k) == [i \in 1..k |-> "/"]

\* the same inventory, identifier and mode twice; the second destination
\* has k more trailing slashes
InitPair ==
    \E d \in Paths, k \in 1..MaxExtra, c \in BOOLEAN,
       at \in Folders \cup {Nowhere} :
        /\ w = World(d, c, at, 1, NoObs)
        /\ shadow = World(d \o Slashes(k), c, at, 1, NoObs)

\* both runs take their next step, the collaborators answering both alike
PairStep ==
    /\ w.pc # "done" \/ shadow.pc # "done"
    /\ \E e \in Env :
          /\ w' = Step(w, e)
          /\ shadow' = Step(shadow, e)

NextPair == PairStep

SpecPair == InitPair /\ [][NextPair]_vars

\* ------------------------------------------------------------- claims
\* the destination argument without its trailing slashes
NoTrail(d) ==
    LET n == CHOOSE i \in 0..Len(d) :
                 /\ i = 0 \/ d[i] # "/"
                 /\ \A j \in (i + 1)..Len(d) : d[j] = "/"
    IN  SubSeq(d, 1, n)

\* a path without its leading slashes
NoLead(d) ==
    LET n == CHOOSE i \in 1..(Len(d) + 1) :
                 /\ i = Len(d) + 1 \/ d[i] # "/"
                 /\ \A j \in 1..(i - 1) : d[j] = "/"
    IN  SubSeq(d, n, Len(d))

\* what the destination argument of the run resolves to
DestObject(s) == FindByInventoryPath(s, NoTrail(s.arg_dest))

DestResolves(s) == DestObject(s).kind = "Folder"

\* the VM exists and was, when the run began, in the destination folder
AtDestination(s) ==
    /\ s.startAt # Nowhere
    /\ DestResolves(s)
    /\ DestObject(s).path = s.startAt

FolderMsg == "Folder name and/or path does not exist"

Definite(s) == s.outcome \in {"success", "failure"}

\* C1: a run issues at most one move-into request, and issues it only in
\* live mode, for a VM that was found, into a destination that resolved,
\* when the VM's parent path differs from the normalized destination.
C1_MoveOnlyWhenPathsDiffer ==
    /\ w.moves <= 1
    /\ w.moves = 1 =>
          /\ ~w.check_mode
          /\ w.startAt # Nowhere
          /\ DestObject(w) # None
          /\ w.startAt # NoTrail(w.arg_dest)
          /\ w.startAt # NoLead(NoTrail(w.arg_dest))

C1_Witness ==
    /\ w.pc = "done"
    /\ w.moves = 1
    /\ w.outcome = "success"

\* C2 as stated: a VM already at the destination gives success, unchanged,
\* with the current facts and no move, whatever the mode.
C2_Original ==
    (w.pc = "done" /\ AtDestination(w) /\ w.raised = NoExc) =>
        /\ w.outcome = "success"
        /\ ~w.out_changed
        /\ w.instance = w.startAt
        /\ w.moves = 0

\* C2 amended: in live mode, when no call raises, a VM already at the
\* destination gives success, unchanged, current facts, and no move.
C2_NoOpWhenInPlaceLive ==
    (w.pc = "done" /\ AtDestination(w) /\ w.raised = NoExc /\ ~w.check_mode) =>
        /\ w.outcome = "success"
        /\ ~w.out_changed
        /\ w.instance = w.startAt
        /\ w.moves = 0
        /\ w.vmAt = w.startAt

C2_Witness ==
    /\ w.pc = "done"
    /\ AtDestination(w)
    /\ ~w.check_mode
    /\ w.arg_dest[1] # "/"
    /\ w.outcome = "success"
    /\ ~w.out_changed

\* C3: in live mode, when no call raises, a VM found in another folder and
\* a destination that resolves to a folder give success, changed, exactly
\* one move request, and facts that show the VM in the destination.
C3_MovedWhenElsewhere ==
    (/\ w.pc = "done"
     /\ ~w.check_mode
     /\ w.startAt # Nowhere
     /\ DestResolves(w)
     /\ ~AtDestination(w)
     /\ w.raised = NoExc) =>
        /\ w.outcome = "success"
        /\ w.out_changed
        /\ w.moves = 1
        /\ w.instance = DestObject(w).path

\* C4 as stated: a destination that resolves to nothing gives the
\* folder-does-not-exist failure whether or not the VM exists.
C4_Original ==
    (w.pc = "done" /\ DestObject(w) = None /\ w.raised = NoExc) =>
        /\ w.outcome = "failure"
        /\ w.msg.kind = FolderMsg
        /\ w.moves = 0

\* C4 amended: when the destination resolves to nothing and no call raises,
\* no move is requested; the run fails with the folder message if the VM
\* was found, and ends with the VM-not-found outcome if it was not.
C4_FolderAbsent ==
    (w.pc = "done" /\ DestObject(w) = None /\ w.raised = NoExc) =>
        /\ w.moves = 0
        /\ IF w.startAt # Nowhere
           THEN w.outcome = "failure" /\ w.msg.kind = FolderMsg
           ELSE IF w.check_mode
                THEN w.outcome = "success" /\ ~w.out_changed
                ELSE w.outcome = "failure" /\ w.msg.kind = "Unable to find VM"

C4_Witness ==
    /\ w.pc = "done"
    /\ w.startAt # Nowhere
    /\ DestObject(w) = None
    /\ w.outcome = "failure"
    /\ w.msg.kind = FolderMsg

\* C5: when the identifier resolves to no VM the run fails with the
\* not-found message in live mode, succeeds unchanged in dry-run mode, and
\* requests no move in either.
C5_VmNotFound ==
    /\ w.startAt = Nowhere => w.moves = 0
    /\ (w.pc = "done" /\ w.startAt = Nowhere /\ w.raised = NoExc) =>
          IF w.check_mode
          THEN w.outcome = "success" /\ ~w.out_changed
          ELSE w.outcome = "failure" /\ w.msg.kind = "Unable to find VM"

C5_Witness ==
    /\ w.pc = "done"
    /\ w.startAt = Nowhere
    /\ w.check_mode
    /\ w.outcome = "success"

\* C6: after a run that moved the VM and reported success, that run has
\* reported changed=true, and the next run with the same arguments requests
\* no move and reports changed=false (success when no call raises).
C6_SecondRunUnchanged ==
    (w.runNo > 1 /\ w.prev.outcome = "success" /\ w.prev.moves = 1) =>
        /\ w.prev.changed
        /\ w.moves = 0
        /\ ~w.out_changed
        /\ (w.pc = "done" /\ w.raised = NoExc) =>
              /\ w.outcome = "success"
              /\ w.instance = w.startAt

C6_Witness ==
    /\ w.runNo = 2
    /\ w.pc = "done"
    /\ w.prev.outcome = "success"
    /\ w.prev.moves = 1
    /\ w.outcome = "success"
    /\ ~w.out_changed

\* C7 as stated: in dry-run mode a found VM gives would-change with the
\* current facts and no mutation, decided before the folder is resolved.
C7_Original ==
    (w.pc = "done" /\ w.check_mode /\ w.vm /\ w.raised = NoExc) =>
        /\ w.outcome = "success"
        /\ w.out_changed
        /\ w.instance = w.startAt
        /\ w.moves = 0

\* C7 amended: in dry-run mode a found VM is never moved; when no call
\* raises the run fails with the folder message if the destination resolves
\* to nothing and otherwise reports would-change with the current facts,
\* which it decides after both lookups.
C7_DryRunAfterLookups ==
    (w.check_mode /\ w.vm) =>
        /\ w.moves = 0
        /\ w.vmAt = w.startAt
        /\ (w.pc = "done" /\ w.raised = NoExc) =>
              IF DestObject(w) = None
              THEN w.outcome = "failure" /\ w.msg.kind = FolderMsg
              ELSE /\ w.outcome = "success"
                   /\ w.out_changed
                   /\ w.instance = w.startAt
                   /\ w.folder = DestObject(w)
                   /\ w.vm_full # <<>>

C7_Witness ==
    /\ w.pc = "done"
    /\ w.check_mode
    /\ w.vm
    /\ w.outcome = "success"
    /\ w.out_changed

\* C8: an exception raised by any lookup, by the move call or by its wait
\* ends the run with a failure that carries the exception's message.
C8_ExceptionsReported ==
    (w.pc = "done" /\ w.raised # NoExc) =>
        /\ w.outcome = "failure"
        /\ w.msg.detail = <<w.raised>>

\* C9: two runs whose destinations differ only in trailing slashes end with
\* the same outcome, changed flag, message, facts and move request, and
\* leave the VM in the same place.
C9_TrailingSlashesIgnored ==
    (w.pc = "done" /\ shadow.pc = "done") =>
        /\ Obs(w) = Obs(shadow)
        /\ w.vmAt = shadow.vmAt

C9_Witness ==
    /\ w.pc = "done"
    /\ shadow.pc = "done"
    /\ w.arg_dest # shadow.arg_dest
    /\ w.moves = 1
    /\ shadow.moves = 1
    /\ w.outcome = "success"

\* C10: a run that returns without an exception escaping it has reported a
\* definitive outcome, also when the task waiter returned a false flag.
C10_DefinitiveOutcome ==
    (w.pc = "done" /\ w.outcome # "uncaught") => Definite(w)

====
